---- MODULE Spec2Model ----
(***************************************************************************)
(* Model of src/main.rs, fn slicing(my_string: &str) -> &str.              *)
(*                                                                         *)
(* A text is a sequence of Unicode scalar values (code points).  A Rust    *)
(* &str stores it as UTF-8; as_bytes() exposes those bytes, the for loop   *)
(* scans them one byte per iteration, and the str index expression         *)
(* &my_string[a..b] cuts by BYTE index, panicking when an index is not a   *)
(* character boundary.  The model keeps all three: the text, its bytes,    *)
(* and the byte-indexed cut with its boundary check.                       *)
(***************************************************************************)
EXTENDS Integers, Sequences, FiniteSets, TLC

VARIABLES my_string, bytes, i, steps, pc, result, calls

vars == <<my_string, bytes, i, steps, pc, result, calls>>

(* ------------------------------ bounds --------------------------------- *)

\* Generated input texts have at most MaxChars characters.
MaxChars == 4

\* slicing is applied at most MaxCalls times in a row (to its own result).
MaxCalls == 2

(* ------------------------------ UTF-8 ---------------------------------- *)

\* The UTF-8 encoding of one scalar value (1 to 4 bytes).
EncodeChar(cp) ==
    IF cp < 128 THEN <<cp>>
    ELSE IF cp < 2048 THEN <<192 + (cp \div 64), 128 + (cp % 64)>>
    ELSE IF cp < 65536 THEN
        <<224 + (cp \div 4096), 128 + ((cp \div 64) % 64), 128 + (cp % 64)>>
    ELSE
        <<240 + (cp \div 262144), 128 + ((cp \div 4096) % 64),
          128 + ((cp \div 64) % 64), 128 + (cp % 64)>>

RECURSIVE as_bytes(_)
\* my_string.as_bytes(): the UTF-8 bytes of the text, in order.
as_bytes(s) ==
    IF s = <<>> THEN <<>> ELSE EncodeChar(Head(s)) \o as_bytes(Tail(s))

\* A byte 10xxxxxx continues a multi-byte character.
IsContinuation(b) == b >= 128 /\ b < 192

\* Number of bytes of the character whose first byte is b.
CharWidth(b) ==
    IF b < 128 THEN 1 ELSE IF b < 224 THEN 2 ELSE IF b < 240 THEN 3 ELSE 4

\* The scalar value encoded by the bytes c (one whole character).
DecodeChar(c) ==
    IF Len(c) = 1 THEN c[1]
    ELSE IF Len(c) = 2 THEN (c[1] - 192) * 64 + (c[2] - 128)
    ELSE IF Len(c) = 3 THEN
        (c[1] - 224) * 4096 + (c[2] - 128) * 64 + (c[3] - 128)
    ELSE (c[1] - 240) * 262144 + (c[2] - 128) * 4096
         + (c[3] - 128) * 64 + (c[4] - 128)

RECURSIVE Decode(_)
\* The text stored in a str whose bytes are b (b starts and ends on
\* character boundaries of a well-formed text).
Decode(b) ==
    IF b = <<>> THEN <<>>
    ELSE LET w == CharWidth(b[1])
         IN  <<DecodeChar(SubSeq(b, 1, w))>> \o Decode(SubSeq(b, w + 1, Len(b)))

\* str::is_char_boundary(idx), idx a 0-based byte index.
IsCharBoundary(b, idx) ==
    \/ idx = 0
    \/ idx = Len(b)
    \/ idx < Len(b) /\ ~IsContinuation(b[idx + 1])

\* &s[from..to] on a str with bytes b: the text of bytes from..to-1, or a
\* panic when the range is out of order, out of bounds, or cuts a character.
StrSlice(b, from, to) ==
    IF from <= to /\ to <= Len(b) /\ IsCharBoundary(b, from) /\ IsCharBoundary(b, to)
    THEN [ok |-> TRUE, val |-> Decode(SubSeq(b, from + 1, to))]
    ELSE [ok |-> FALSE, val |-> <<>>]

(* ------------------------------ inputs --------------------------------- *)

\* The characters of generated texts: 'r', 'w', and one 2-, 3- and 4-byte
\* character each (U+0172, U+2072, U+1F372).
Alphabet == {114, 119, 370, 8306, 127858}

\* "hello world", the literal main passes to slicing.
HelloWorld == <<104, 101, 108, 108, 111, 32, 119, 111, 114, 108, 100>>

\* "world", the literal of give_ownership.
World == <<119, 111, 114, 108, 100>>

\* "world with r in it"
WorldWithR == <<119, 111, 114, 108, 100, 32, 119, 105, 116, 104, 32, 114, 32,
                105, 110, 32, 105, 116>>

\* All texts of at most n characters over Alphabet.
TextsUpTo(n) == UNION {[1..k -> Alphabet] : k \in 0..n}

\* The texts slicing is called with.
Inputs == TextsUpTo(MaxChars) \cup {HelloWorld, World, WorldWithR}

(* ------------------------------ slicing -------------------------------- *)

\* b'r'
Marker == 114

\* Mutation: the scan compares against b'w'.
IsMarkerW(item) == item = 119

\* Mutation: the scan compares against 0xB2, a continuation byte.
IsMarkerCont(item) == item = 178

\* if item == b'r'
IsMarker(item) == item = Marker

\* Mutation: the inclusive range 0..=i.
FoundSliceInclusive(b, idx) == StrSlice(b, 0, idx + 1)

\* Mutation: the rest of the text after the marker, i+1.. .
FoundSliceAfter(b, idx) == StrSlice(b, idx + 1, Len(b))

\* return &my_string[0..i];
FoundSlice(b, idx) == StrSlice(b, 0, idx)

\* &my_string[..]
WholeSlice(b) == StrSlice(b, 0, Len(b))

\* Function entry: the argument is bound and its bytes are taken.
Init ==
    /\ my_string \in Inputs
    /\ bytes = as_bytes(my_string)
    /\ i = 0
    /\ steps = 0
    /\ pc = "loop"
    /\ result = <<>>
    /\ calls = 1

\* One loop iteration whose byte is the marker: return the prefix.
LoopFound ==
    /\ pc = "loop"
    /\ i < Len(bytes)
    /\ IsMarker(bytes[i + 1])
    /\ steps' = steps + 1
    /\ LET r == FoundSlice(bytes, i)
       IN  IF r.ok
           THEN result' = r.val /\ pc' = "done"
           ELSE result' = result /\ pc' = "panic"
    /\ UNCHANGED <<my_string, bytes, i, calls>>

\* One loop iteration whose byte is not the marker: go on to the next byte.
LoopNext ==
    /\ pc = "loop"
    /\ i < Len(bytes)
    /\ ~IsMarker(bytes[i + 1])
    /\ i' = i + 1
    /\ steps' = steps + 1
    /\ UNCHANGED <<my_string, bytes, pc, result, calls>>

\* The iterator is exhausted: return the whole string.
LoopEnd ==
    /\ pc = "loop"
    /\ i = Len(bytes)
    /\ LET r == WholeSlice(bytes)
       IN  IF r.ok
           THEN result' = r.val /\ pc' = "done"
           ELSE result' = result /\ pc' = "panic"
    /\ UNCHANGED <<my_string, bytes, i, steps, calls>>

\* The caller passes the returned slice to slicing again.
Reapply ==
    /\ pc = "done"
    /\ calls < MaxCalls
    /\ my_string' = result
    /\ bytes' = as_bytes(result)
    /\ i' = 0
    /\ steps' = 0
    /\ pc' = "loop"
    /\ calls' = calls + 1
    /\ UNCHANGED result

Next == LoopFound \/ LoopNext \/ LoopEnd \/ Reapply

Spec == Init /\ [][Next]_vars

\* A started call runs on: the loop is sequential code with no suspension.
FairSpec == Spec /\ WF_vars(LoopFound \/ LoopNext \/ LoopEnd)

(* ------------------------------ properties ----------------------------- *)

\* The text s has no character 'r'.
NoR(s) == \A k \in 1..Len(s) : s[k] # 114

\* The bytes p are the first Len(p) bytes of the bytes b.
IsBytePrefix(p, b) ==
    /\ Len(p) <= Len(b)
    /\ \A k \in 1..Len(p) : p[k] = b[k]

RECURSIVE WellFormedUtf8(_)
\* The bytes b are a sequence of whole, correctly continued characters.
WellFormedUtf8(b) ==
    \/ b = <<>>
    \/ /\ ~IsContinuation(b[1])
       /\ LET w == CharWidth(b[1])
          IN  /\ w <= Len(b)
              /\ \A k \in 2..w : IsContinuation(b[k])
              /\ WellFormedUtf8(SubSeq(b, w + 1, Len(b)))

\* Every state's text is a str: bytes is its well-formed encoding.
TypeOK ==
    /\ bytes = as_bytes(my_string)
    /\ WellFormedUtf8(bytes)
    /\ i \in 0..Len(bytes)
    /\ pc \in {"loop", "done", "panic"}
    /\ calls \in 1..MaxCalls

\* C1: whenever the text is A + 'r' + B with no 'r' in A (B arbitrary), the
\* call returns exactly A, the prefix before the first 'r'.
C1_PrefixBeforeFirstMarker ==
    pc = "done" =>
        \A k \in 1..Len(my_string) :
            (my_string[k] = 114 /\ NoR(SubSeq(my_string, 1, k - 1)))
                => result = SubSeq(my_string, 1, k - 1)

\* A finished call on a text with a non-empty, partly multi-byte A, an 'r',
\* and a B that holds a further 'r'.
C1_Witness ==
    /\ pc = "done"
    /\ \E k \in 2..Len(my_string) :
        /\ my_string[k] = 114
        /\ NoR(SubSeq(my_string, 1, k - 1))
        /\ \E j \in 1..(k - 1) : my_string[j] > 127
        /\ \E j \in (k + 1)..Len(my_string) : my_string[j] = 114
        /\ result = SubSeq(my_string, 1, k - 1)

\* C2: a text with no 'r' is returned whole, equal in content and length.
C2_NoMarkerReturnsWhole ==
    (pc = "done" /\ NoR(my_string)) =>
        (result = my_string /\ Len(result) = Len(my_string))

\* A finished call on a non-empty text without 'r' that has a multi-byte
\* character, returned whole.
C2_Witness ==
    /\ pc = "done"
    /\ NoR(my_string)
    /\ Len(my_string) >= 2
    /\ \E j \in 1..Len(my_string) : my_string[j] > 127
    /\ result = my_string

\* C3 as stated: slicing("world") returns "world".
C3_Original ==
    (pc = "done" /\ my_string = World) => result = World

\* C3 amended: slicing("world") returns "wo", the two characters before the
\* 'r' that "world" contains.
C3_WorldReturnsWo ==
    (pc = "done" /\ my_string = World) => result = <<119, 111>>

\* The call on "world" has returned "wo".
C3_Witness ==
    pc = "done" /\ my_string = World /\ result = <<119, 111>> /\ steps = 3

\* C4 as stated: slicing("world with r in it") returns "world with ".
C4_Original ==
    (pc = "done" /\ my_string = WorldWithR) => result = SubSeq(WorldWithR, 1, 11)

\* C4 amended: slicing("world with r in it") returns "wo": the first 'r' is
\* the third character, inside "world".
C4_WorldWithRReturnsWo ==
    (pc = "done" /\ my_string = WorldWithR) => result = <<119, 111>>

\* The call on "world with r in it" has returned "wo".
C4_Witness ==
    pc = "done" /\ my_string = WorldWithR /\ result = <<119, 111>> /\ steps = 3

\* C5: the empty text yields the empty text, "r" yields the empty text, and
\* any text that starts with 'r' yields the empty text.
C5_EdgeCases ==
    pc = "done" =>
        /\ (my_string = <<>> => result = <<>>)
        /\ (my_string = <<114>> => result = <<>>)
        /\ ((Len(my_string) > 0 /\ my_string[1] = 114) => result = <<>>)

\* A finished call on a longer text that starts with 'r'.
C5_Witness ==
    /\ pc = "done"
    /\ Len(my_string) >= 2
    /\ my_string[1] = 114
    /\ my_string[2] # 114
    /\ steps = 1
    /\ result = <<>>

\* C6: the call never panics, the loop body runs at most len(text) times
\* (len in bytes), and every started call returns.
C6_Total ==
    /\ [](pc # "panic" /\ steps <= Len(bytes))
    /\ [](pc = "done" => result \in Seq(Nat))
    /\ ((pc = "loop") ~> (pc = "done"))

\* A call on a text with multi-byte characters that returned after running
\* the loop body once for every byte.
C6_Witness ==
    /\ pc = "done"
    /\ steps = Len(bytes)
    /\ Len(bytes) > Len(my_string)

\* C7: the returned text is a byte range of the input that starts at 0: its
\* end is at most len(T) and each of its bytes is the input's byte there.
C7_ResultIsPrefix ==
    pc = "done" => IsBytePrefix(as_bytes(result), as_bytes(my_string))

\* A call that returned a proper, non-empty prefix with a multi-byte
\* character in it.
C7_Witness ==
    /\ pc = "done"
    /\ result # <<>>
    /\ Len(as_bytes(result)) < Len(bytes)
    /\ Len(as_bytes(result)) > Len(result)

\* C8: the byte index at which the loop cuts is a character boundary of the
\* input, the bytes before it are well-formed UTF-8, and no cut panics.
C8_CutOnCharBoundary ==
    /\ pc # "panic"
    /\ (pc = "loop" /\ i < Len(bytes) /\ IsMarker(bytes[i + 1])) =>
        /\ IsCharBoundary(bytes, i)
        /\ ~IsContinuation(bytes[i + 1])
        /\ WellFormedUtf8(SubSeq(bytes, 1, i))

\* The loop is about to cut right after a 2-, a 3- and a 4-byte character.
C8_Witness ==
    /\ pc = "loop"
    /\ i < Len(bytes)
    /\ IsMarker(bytes[i + 1])
    /\ i = 9
    /\ {CharWidth(bytes[k]) : k \in {k \in 1..i : ~IsContinuation(bytes[k])}}
         = {2, 3, 4}

\* C9: the returned text has no 'r', as characters and as bytes.
C9_ResultHasNoMarker ==
    pc = "done" =>
        /\ NoR(result)
        /\ NoR(as_bytes(result))

\* A call on a text with an 'r' that returned a non-empty text.
C9_Witness ==
    /\ pc = "done"
    /\ ~NoR(my_string)
    /\ result # <<>>
    /\ NoR(result)

\* C10: applying slicing to its own result returns that result again.
C10_Idempotent ==
    (pc = "done" /\ calls >= 2) => result = my_string

\* The second call has returned, the first having cut its input short.
C10_Witness ==
    /\ pc = "done"
    /\ calls = 2
    /\ result = my_string
    /\ result # <<>>
    /\ result # World

====
